---- MODULE Spec2Model ----
(***************************************************************************)
(* A model of dmitigr::prg: the command-line parser (command.hpp), the     *)
(* process registry Info together with the lifecycle runner start() and    *)
(* the signal handler (run.hpp, info.hpp), and the daemonizer detach()     *)
(* (detach.hpp).                                                           *)
(*                                                                         *)
(* Strings are sequences of one-character strings, so that find(),         *)
(* substr() and the path decomposition are computed as the code computes   *)
(* them.  Positions inside the string helpers are 0-based as in C++.       *)
(***************************************************************************)
EXTENDS Integers, Sequences, FiniteSets, TLC

(***************************************************************************)
(* Bounds of the model.                                                    *)
(***************************************************************************)
\* The largest argc handed to parsed_commands.
MaxArgc == 4

(***************************************************************************)
(* std::string / std::string_view helpers.                                 *)
(***************************************************************************)
\* std::string::npos
npos == -1

\* arg.find(ch, from): the 0-based position of the first ch at or after from.
find_char(arg, ch, from) ==
  LET hits == {i \in (from + 1)..Len(arg) : arg[i] = ch}
  IN IF hits = {} THEN npos
     ELSE (CHOOSE i \in hits : \A j \in hits : i <= j) - 1

\* arg.substr(pos, n)
substr(arg, pos, n) == SubSeq(arg, pos + 1, pos + n)

\* arg.substr(pos)
substr_from(arg, pos) == SubSeq(arg, pos + 1, Len(arg))

\* std::nullopt and an engaged std::optional<std::string>
Nullopt == [has_value |-> FALSE, value |-> <<>>]
Some(v) == [has_value |-> TRUE, value |-> v]

(***************************************************************************)
(* Command (command.hpp).                                                  *)
(***************************************************************************)
\* Command{name, options, parameters}; options is the std::map, a function
\* from the names present to their optional values.
Command(name, options, parameters) ==
  [name |-> name, options |-> options, parameters |-> parameters]

\* Command::is_valid()
is_valid(command) == command.name # <<>>

\* An empty Option_map.
EmptyOptions == [k \in {} |-> Nullopt]

\* options[key] = value on a std::map: inserts or overwrites.
map_assign(options, key, value) ==
  [k \in (DOMAIN options) \cup {key} |-> IF k = key THEN value ELSE options[k]]

(***************************************************************************)
(* parsed_commands (command.hpp).                                          *)
(***************************************************************************)
\* The lambda is_opt: arg.find("--") == 0.
is_opt(arg) == Len(arg) >= 2 /\ arg[1] = "-" /\ arg[2] = "-"

\* What the lambda opt returns: std::nullopt, or a pair (name, value).
NotAnOption == [is_option |-> FALSE, first |-> <<>>, second |-> Nullopt]
OptPair(name, value) == [is_option |-> TRUE, first |-> name, second |-> value]

\* The lambda opt.
opt(arg) ==
  IF is_opt(arg)
  THEN IF Len(arg) = 2
       THEN \* Explicit end-of-commands.
            OptPair(<<>>, Nullopt)
       ELSE LET pos == find_char(arg, "=", 2)
            IN IF pos # npos
               THEN \* Option with value.
                    OptPair(substr(arg, 2, pos - 2), Some(substr_from(arg, pos + 1)))
               ELSE \* Option without value.
                    OptPair(substr_from(arg, 2), Nullopt)
  ELSE NotAnOption

\* A variant of the marker branch that does not step over the marker.
after_marker_not_consumed(argi) == argi

\* ++argi on the explicit end marker, before the break.
after_marker(argi) == argi + 1

\* The loop "Collect options": from argi on, until the end of argv, an
\* explicit end marker (consumed) or a token that is not an option (kept).
RECURSIVE collect_options(_, _, _, _)
collect_options(n, av, argi, options) ==
  IF ~(argi < n)
  THEN [argi |-> argi, options |-> options, is_end_of_options_detected |-> FALSE]
  ELSE LET o == opt(av[argi + 1])
       IN IF o.is_option
          THEN IF o.first = <<>>
               THEN [argi |-> after_marker(argi), options |-> options,
                     is_end_of_options_detected |-> TRUE]
               ELSE collect_options(n, av, argi + 1,
                                    map_assign(options, o.first, o.second))
          ELSE [argi |-> argi, options |-> options,
                is_end_of_options_detected |-> FALSE]

\* The outcome of a call: a value, or the exception that left it.
Returned(commands) == [ok |-> TRUE, what |-> "", at |-> -1, commands |-> commands]
Thrown(what, at) == [ok |-> FALSE, what |-> what, at |-> at, commands |-> <<>>]

\* The condition of "Collect parameters if the current command is the last one".
collects_parameters(is_end_of_options_detected, mode) ==
  is_end_of_options_detected \/ mode

\* if (name.empty()) throw
name_is_rejected(name) == name = <<>>

\* The while loop of parsed_commands.
RECURSIVE parse_loop(_, _, _, _, _)
parse_loop(n, av, mode, argi, result) ==
  IF ~(argi < n)
  THEN Returned(result)
  ELSE LET name == av[argi + 1]
       IN IF name_is_rejected(name)
          THEN Thrown("empty command name at argv[argi]", argi)
          ELSE LET c == collect_options(n, av, argi + 1, EmptyOptions)
                   collecting == collects_parameters(c.is_end_of_options_detected, mode)
                   parameters == IF collecting THEN SubSeq(av, c.argi + 1, n) ELSE <<>>
                   next_argi == IF collecting /\ c.argi < n THEN n ELSE c.argi
               IN parse_loop(n, av, mode, next_argi,
                             Append(result, Command(name, c.options, parameters)))

\* A variant of parsed_commands without the argc check.
parsed_commands_no_argc_check(n, av_is_null, av, mode) ==
  IF av_is_null THEN Thrown("invalid vector of arguments (argv)", -1)
  ELSE parse_loop(n, av, mode, 0, <<>>)

\* parsed_commands(argc, argv, is_one_command_mode)
parsed_commands(n, av_is_null, av, mode) ==
  IF ~(n > 0) THEN Thrown("invalid count of arguments (argc)", -1)
  ELSE IF av_is_null THEN Thrown("invalid vector of arguments (argv)", -1)
  ELSE parse_loop(n, av, mode, 0, <<>>)

\* parsed_command(argc, argv): parsed_commands(argc, argv, true)[0]
parsed_command(n, av_is_null, av) ==
  LET r == parsed_commands(n, av_is_null, av, TRUE)
  IN IF r.ok THEN Returned(<<r.commands[1]>>) ELSE r

(***************************************************************************)
(* Command::Optref and the accessors of Command (command.hpp).             *)
(***************************************************************************)
\* What a call gives its caller: a value, or an Exception with its message.
\* A message is kept as the sequence of the pieces appended to it.
Value(v) == [threw |-> FALSE, what |-> <<>>, value |-> v]
Exception(what) == [threw |-> TRUE, what |-> what, value |-> <<>>]

\* The two constructors of Optref.
Optref(is_valid_, name_, value_) ==
  [is_valid_ |-> is_valid_, name_ |-> name_, value_ |-> value_]

\* Command::option(name)
option(command, name) ==
  IF name \in DOMAIN command.options
  THEN Optref(TRUE, name, command.options[name])
  ELSE Optref(FALSE, name, Nullopt)

\* Optref::throw_requirement(requirement)
throw_requirement(optref, requirement) ==
  Exception(<<"option --", optref.name_, " ", requirement>>)

\* Optref::is_valid_throw_if_value()
is_valid_throw_if_value(optref) ==
  IF optref.is_valid_ /\ optref.value_.has_value
  THEN throw_requirement(optref, "requires no value")
  ELSE Value(optref.is_valid_)

\* A variant of is_valid_throw_if_no_value that does not look at validity.
is_valid_throw_if_no_value_unchecked(optref) ==
  IF ~optref.value_.has_value
  THEN throw_requirement(optref, "requires a value")
  ELSE Value(optref.is_valid_)

\* Optref::is_valid_throw_if_no_value()
is_valid_throw_if_no_value(optref) ==
  IF optref.is_valid_ /\ ~optref.value_.has_value
  THEN throw_requirement(optref, "requires a value")
  ELSE Value(optref.is_valid_)

\* Optref::value_of_mandatory()
value_of_mandatory(optref) ==
  IF ~optref.is_valid_
  THEN throw_requirement(optref, "is mandatory")
  ELSE Value(optref.value_)

\* Optref::value_of_mandatory_not_null()
value_of_mandatory_not_null(optref) ==
  LET val == value_of_mandatory(optref)
  IN IF val.threw THEN val
     ELSE IF ~val.value.has_value
     THEN throw_requirement(optref, "requires a value")
     ELSE Value(val.value.value)

\* A variant of value_of_mandatory_not_empty that lets an empty value pass.
value_of_mandatory_not_empty_unchecked(optref) ==
  value_of_mandatory_not_null(optref)

\* Optref::value_of_mandatory_not_empty()
value_of_mandatory_not_empty(optref) ==
  LET val == value_of_mandatory_not_null(optref)
  IN IF val.threw THEN val
     ELSE IF val.value = <<>>
     THEN throw_requirement(optref, "requires a non empty value")
     ELSE val

\* Command::options(names...): the tuple of option(name), in order.
options(command, names) ==
  [i \in 1..Len(names) |-> option(command, names[i])]

\* The code of a character, for the order of the keys of a std::map.
char_code(ch) ==
  CASE ch = "-" -> 45 [] ch = "." -> 46 [] ch = "/" -> 47 [] ch = ":" -> 58
    [] ch = "=" -> 61 [] ch = "a" -> 97 [] ch = "b" -> 98 [] ch = "d" -> 100
    [] ch = "f" -> 102 [] ch = "x" -> 120 [] OTHER -> 127

\* std::less<std::string>: the lexicographic order.
RECURSIVE string_less(_, _)
string_less(a, b) ==
  IF b = <<>> THEN FALSE
  ELSE IF a = <<>> THEN TRUE
  ELSE IF char_code(Head(a)) # char_code(Head(b))
  THEN char_code(Head(a)) < char_code(Head(b))
  ELSE string_less(Tail(a), Tail(b))

\* The first key, in the order of the map, that the loop of options_strict
\* does not find among the names.
first_unexpected(command, names) ==
  LET unexpected ==
        {k \in DOMAIN command.options : \A i \in 1..Len(names) : names[i] # k}
  IN IF unexpected = {} THEN Nullopt
     ELSE Some(CHOOSE k \in unexpected :
                 \A j \in unexpected : j = k \/ string_less(k, j))

\* A variant of options_strict that never objects.
options_strict_lenient(command, names) == Value(options(command, names))

\* Command::options_strict(names...)
options_strict(command, names) ==
  LET unexpected == first_unexpected(command, names)
  IN IF unexpected.has_value
     THEN Exception(<<"unexpected option --", unexpected.value>>)
     ELSE Value(options(command, names))

(***************************************************************************)
(* command_id (command.hpp).                                               *)
(***************************************************************************)
\* The loop of detail::command_id with the appender of both overloads:
\* result.append(element).append(delim) for the elements from i on.
RECURSIVE appended(_, _, _, _)
appended(result, elements, i, delim) ==
  IF i > Len(elements) THEN result
  ELSE appended(result \o elements[i] \o delim, elements, i + 1, delim)

\* detail::command_id(appender, elements, offset, delim).  result.pop_back()
\* removes one character; on an empty result it is undefined, and the call
\* then ends as `undefined` says.
detail_command_id(elements, offset, delim, undefined) ==
  IF ~(offset < Len(elements))
  THEN Exception(<<"cannot generate command ID: offset is out of range">>)
  ELSE LET result == appended(<<>>, elements, offset + 1, delim)
       IN IF result = <<>> THEN undefined
          ELSE Value(SubSeq(result, 1, Len(result) - 1))

\* command_id(commands, offset, delim)
command_id(commands, offset, delim, undefined) ==
  detail_command_id([i \in 1..Len(commands) |-> commands[i].name],
                    offset, delim, undefined)

\* command_id(parameters, offset, delim)
command_id_of_parameters(parameters, offset, delim, undefined) ==
  detail_command_id(parameters, offset, delim, undefined)

(***************************************************************************)
(* std::filesystem::path on POSIX, over the same character sequences.      *)
(***************************************************************************)
\* The 1-based position of the last '/' of p, 0 when there is none.
last_slash(p) ==
  LET hits == {i \in 1..Len(p) : p[i] = "/"}
  IN IF hits = {} THEN 0 ELSE CHOOSE i \in hits : \A j \in hits : j <= i

\* p without its trailing '/' characters.
RECURSIVE strip_slashes(_)
strip_slashes(p) ==
  IF p # <<>> /\ p[Len(p)] = "/" THEN strip_slashes(SubSeq(p, 1, Len(p) - 1)) ELSE p

\* path::filename()
filename(p) == SubSeq(p, last_slash(p) + 1, Len(p))

\* path::parent_path()
parent_path(p) ==
  LET i == last_slash(p)
  IN IF i = 0 THEN <<>>
     ELSE LET dir == strip_slashes(SubSeq(p, 1, i - 1))
          IN IF dir = <<>> THEN <<"/">> ELSE dir

\* operator/(p, q)
path_append(p, q) ==
  IF q # <<>> /\ q[1] = "/" THEN q
  ELSE IF p = <<>> \/ p[Len(p)] = "/" THEN p \o q
  ELSE p \o <<"/">> \o q

\* path::extension() of the filename f: from its last '.', unless f is ".",
\* ".." or has its only '.' in front.
extension_start(f) ==
  LET hits == {i \in 2..Len(f) : f[i] = "."}
  IN IF hits = {} \/ f = <<".">> \/ f = <<".", ".">> THEN Len(f) + 1
     ELSE CHOOSE i \in hits : \A j \in hits : j <= i

\* path::replace_extension(ext)
replace_extension(p, ext) ==
  LET f == filename(p)
      stem == SubSeq(f, 1, extension_start(f) - 1)
  IN SubSeq(p, 1, last_slash(p)) \o stem \o ext

\* The paths "." and ".." that detach() refuses as file names.
Dot == <<".">>
DotDot == <<".", ".">>

(***************************************************************************)
(* The state.                                                              *)
(***************************************************************************)
\* The number of process slots of the system (fork fails when none is free).
MaxProcs == 3

Procs == 0..(MaxProcs - 1)

VARIABLES
  argc,                \* main's argc
  argv,                \* main's argv: the tokens, <<>> when argv is null
  argv_null,           \* argv is a null pointer
  is_one_command_mode, \* the mode handed to parsed_commands
  parsed,              \* the last parser call and its outcome
  queried,             \* the last call on a parsed Command and its outcome
  header,              \* the header that defines Info: "run.hpp" or "info.hpp"
  start_args,          \* what the application passes to start() / detach()
  pc,                  \* per process: where its control is
  exit_code,           \* per process: how it ended
  instance_,           \* per process: Info::instance_
  is_running,          \* per process: Info::is_running
  handler,             \* per process: handle_signal is installed
  frame,               \* per process: the locals of the running start()/detach()
  trace,               \* per process: the steps of the running start()/detach()
  last_call,           \* per process: the last library call that came back
  stop_requested       \* per process: SIGINT was handled since the last start

vars == <<argc, argv, argv_null, is_one_command_mode, parsed, queried, header, start_args,
          pc, exit_code, instance_, is_running, handler, frame, trace,
          last_call, stop_requested>>

input_vars == <<argc, argv, argv_null, is_one_command_mode, header, start_args>>

parser_vars == <<parsed, queried>>

proc_vars == <<pc, exit_code, instance_, is_running, handler, frame, trace,
               last_call, stop_requested>>

(***************************************************************************)
(* Inputs.                                                                 *)
(***************************************************************************)
\* The tokens argv is drawn from when the parser is exercised.
Tokens ==
  { <<>>,                          \* ""
    <<"a">>,                       \* a
    <<"-", "a">>,                  \* -a
    <<"-", "-">>,                  \* --
    <<"-", "-", "a">>,             \* --a
    <<"-", "-", "a", "=">>,        \* --a=
    <<"-", "-", "a", "=", "b">>,   \* --a=b
    <<"-", "-", "b">>,             \* --b
    <<"-", "-", "=", "b">> }       \* --=b

\* The command lines a process of the lifecycle model is started with.
MainInputs ==
  { [argc |-> 0, argv_null |-> FALSE, argv |-> <<>>],
    [argc |-> -1, argv_null |-> FALSE, argv |-> <<>>],
    [argc |-> 1, argv_null |-> TRUE, argv |-> <<>>],
    [argc |-> 1, argv_null |-> FALSE, argv |-> << <<>> >>],
    [argc |-> 1, argv_null |-> FALSE, argv |-> << <<"a">> >>],
    [argc |-> 1, argv_null |-> FALSE, argv |-> << <<"d", "/", "a">> >>],
    [argc |-> 2, argv_null |-> FALSE,
     argv |-> << <<"d", "/", "a", ".", "x">>, <<"-", "-", "a">> >>] }

\* The paths the application passes as working directory, PID file, log file.
PathInputs == { <<>>, Dot, DotDot, <<"d", "/", "f">> }

StartArgs ==
  [detach : BOOLEAN, startup_null : BOOLEAN,
   working_directory : PathInputs, pid_file : PathInputs, log_file : PathInputs]

NoStartArgs ==
  [detach |-> FALSE, startup_null |-> FALSE,
   working_directory |-> <<>>, pid_file |-> <<>>, log_file |-> <<>>]

(***************************************************************************)
(* Values of the per-process state.                                        *)
(***************************************************************************)
NoInstance == [initialized |-> FALSE, id |-> 0, commands |-> <<>>]

NoFrame ==
  [detach |-> FALSE, via_start |-> FALSE,
   working_directory |-> <<>>, pid_file |-> <<>>, log_file |-> <<>>]

NoCall == [fn |-> "none", outcome |-> "none", id |-> 0]
Call(fn, outcome, id) == [fn |-> fn, outcome |-> outcome, id |-> id]

NotParsed == [fn |-> "none", result |-> Thrown("", -1)]

NotQueried == [fn |-> "none", args |-> <<>>, result |-> <<>>]

\* One step of start()/detach() and how it went.
E(step, result) == <<step, result>>

Alive(p) == pc[p] \notin {"absent", "exited"}

(***************************************************************************)
(* Ways a process leaves a call.                                           *)
(***************************************************************************)
\* std::exit(code) after the steps `events`.
Exits(p, code, events) ==
  /\ pc' = [pc EXCEPT ![p] = "exited"]
  /\ exit_code' = [exit_code EXCEPT ![p] = code]
  /\ trace' = [trace EXCEPT ![p] = @ \o events]

\* DMITIGR_ASSERT failed inside fn: the process is terminated on the spot.
AssertionFails(p, fn) ==
  /\ pc' = [pc EXCEPT ![p] = "exited"]
  /\ exit_code' = [exit_code EXCEPT ![p] = "assertion_failure"]
  /\ last_call' = [last_call EXCEPT ![p] = Call(fn, "assertion", 0)]

\* An exception leaves the running start() and reaches the caller.
StartThrows(p) ==
  /\ pc' = [pc EXCEPT ![p] = "main"]
  /\ last_call' = [last_call EXCEPT ![p] = Call("start", "threw", 0)]
  /\ frame' = [frame EXCEPT ![p] = NoFrame]

(***************************************************************************)
(* Info (run.hpp, info.hpp).                                               *)
(***************************************************************************)
\* A variant of the first assertion of initialize that always passes.
initialize_allowed_always(inst) == TRUE

\* DMITIGR_ASSERT(!instance_)
initialize_allowed(inst) == ~inst.initialized

\* Info::make as the application defines it for run.hpp's Info.
make(inst, commands) ==
  [initialized |-> TRUE, id |-> inst.id + 1, commands |-> commands]

\* Info::is_initialized()
is_initialized(inst) == inst.initialized

\* Info::initialize(argc, argv) of run.hpp.
Info_initialize_run(p) ==
  /\ header = "run.hpp"
  /\ pc[p] = "main"
  /\ IF ~initialize_allowed(instance_[p])
     THEN /\ AssertionFails(p, "initialize")
          /\ UNCHANGED <<instance_, is_running, handler, frame, trace, stop_requested>>
     ELSE LET commands == parsed_commands(argc, argv_null, argv, FALSE)
          IN IF ~commands.ok
             THEN \* the Exception of parsed_commands reaches the caller
                  /\ last_call' = [last_call EXCEPT ![p] = Call("initialize", "threw", 0)]
                  /\ UNCHANGED <<pc, exit_code, instance_, is_running, handler,
                                 frame, trace, stop_requested>>
             ELSE IF ~(commands.commands # <<>> /\ is_valid(commands.commands[1]))
             THEN /\ AssertionFails(p, "initialize")
                  /\ UNCHANGED <<instance_, is_running, handler, frame, trace,
                                 stop_requested>>
             ELSE /\ instance_' = [instance_ EXCEPT
                                     ![p] = make(@, commands.commands)]
                  /\ is_running' = [is_running EXCEPT ![p] = FALSE]
                  /\ last_call' = [last_call EXCEPT
                                     ![p] = Call("initialize", "returned",
                                                 instance_[p].id + 1)]
                  /\ UNCHANGED <<pc, exit_code, handler, frame, trace, stop_requested>>
  /\ UNCHANGED <<input_vars, parser_vars>>

\* Info::initialize(argc, argv) of info.hpp, with Info::make as the unit test
\* defines it: canonical(argv[0]) needs the file to exist, then the command
\* line is parsed.
Info_initialize_info(p) ==
  /\ header = "info.hpp"
  /\ pc[p] = "main"
  /\ IF ~initialize_allowed(instance_[p]) \/ argc = 0 \/ argv_null
     THEN /\ AssertionFails(p, "initialize")
          /\ UNCHANGED <<instance_, is_running, handler, frame, trace, stop_requested>>
     ELSE \E executable_exists \in BOOLEAN :
            LET commands == parsed_commands(argc, argv_null, argv, FALSE)
            IN IF ~executable_exists \/ ~commands.ok
               THEN \* filesystem_error or Exception reaches the caller
                    /\ last_call' = [last_call EXCEPT
                                       ![p] = Call("initialize", "threw", 0)]
                    /\ UNCHANGED <<pc, exit_code, instance_, is_running, handler,
                                   frame, trace, stop_requested>>
               ELSE IF ~(commands.commands # <<>> /\ is_valid(commands.commands[1]))
               THEN /\ AssertionFails(p, "initialize")
                    /\ UNCHANGED <<instance_, is_running, handler, frame, trace,
                                   stop_requested>>
               ELSE /\ instance_' = [instance_ EXCEPT
                                       ![p] = make(@, commands.commands)]
                    /\ last_call' = [last_call EXCEPT
                                       ![p] = Call("initialize", "returned",
                                                   instance_[p].id + 1)]
                    /\ UNCHANGED <<pc, exit_code, is_running, handler, frame,
                                   trace, stop_requested>>
  /\ UNCHANGED <<input_vars, parser_vars>>

\* Info::instance()
Info_instance(p) ==
  /\ pc[p] = "main"
  /\ IF ~is_initialized(instance_[p])
     THEN /\ AssertionFails(p, "instance")
          /\ UNCHANGED <<instance_, is_running, handler, frame, trace, stop_requested>>
     ELSE /\ last_call' = [last_call EXCEPT
                             ![p] = Call("instance", "returned", instance_[p].id)]
          /\ UNCHANGED <<pc, exit_code, instance_, is_running, handler, frame,
                         trace, stop_requested>>
  /\ UNCHANGED <<input_vars, parser_vars>>

(***************************************************************************)
(* Signals (run.hpp).                                                      *)
(***************************************************************************)
Signals == {"SIGINT", "SIGTERM", "SIGABRT", "SIGFPE", "SIGILL", "SIGSEGV"}

\* set_signals(): handle_signal becomes the handler of the six signals.
set_signals(p) ==
  /\ header = "run.hpp"
  /\ pc[p] = "main"
  /\ ~handler[p]
  /\ handler' = [handler EXCEPT ![p] = TRUE]
  /\ UNCHANGED <<input_vars, parser_vars, pc, exit_code, instance_, is_running, frame,
                 trace, last_call, stop_requested>>

\* A variant of the handler's store that leaves the flag as it is.
stored_on_sigint_keeps(running) == running

\* Info::instance().is_running = false
stored_on_sigint(running) == FALSE

\* handle_signal(sig), run in process p wherever its control is.  SIGTERM
\* ends the process through std::quick_exit, except in a build for macOS
\* where that branch is compiled out.
handle_signal(p, sig) ==
  /\ Alive(p)
  /\ handler[p]
  /\ CASE sig = "SIGINT" ->
            IF ~is_initialized(instance_[p])
            THEN /\ AssertionFails(p, "handle_signal")
                 /\ UNCHANGED <<instance_, is_running, handler, frame, trace,
                                stop_requested>>
            ELSE /\ is_running' = [is_running EXCEPT ![p] = stored_on_sigint(@)]
                 /\ stop_requested' = [stop_requested EXCEPT ![p] = TRUE]
                 /\ UNCHANGED <<pc, exit_code, instance_, handler, frame, trace,
                                last_call>>
       [] sig = "SIGTERM" ->
            \E is_apple \in BOOLEAN :
              IF is_apple
              THEN UNCHANGED proc_vars
              ELSE /\ pc' = [pc EXCEPT ![p] = "exited"]
                   /\ exit_code' = [exit_code EXCEPT ![p] = "quick_exit"]
                   /\ UNCHANGED <<instance_, is_running, handler, frame, trace,
                                  last_call, stop_requested>>
       [] OTHER -> UNCHANGED proc_vars
  /\ UNCHANGED <<input_vars, parser_vars>>

(***************************************************************************)
(* with_shutdown_on_error (run.hpp).                                       *)
(***************************************************************************)
\* A variant of the handlers' store that leaves the flag as it is.
stored_on_error_keeps(running) == running

\* Info::instance().is_running = false, in both handlers.
stored_on_error(running) == FALSE

\* with_shutdown_on_error(f, where), called by the application from main or
\* from its startup routine; f returns or throws.  The return type is that
\* of f: when f returns a value and throws, control flows off the end of
\* the function after the handler, which is undefined: the caller gets an
\* indeterminate value or the process is brought down.
with_shutdown_on_error(p, f_throws, f_is_void) ==
  /\ header = "run.hpp"
  /\ pc[p] \in {"main", "startup"}
  /\ IF ~f_throws
     THEN /\ last_call' = [last_call EXCEPT
                             ![p] = Call("with_shutdown_on_error", "returned", 0)]
          /\ UNCHANGED <<pc, exit_code, instance_, is_running, handler, frame,
                         trace, stop_requested>>
     ELSE IF ~is_initialized(instance_[p])
     THEN /\ AssertionFails(p, "with_shutdown_on_error")
          /\ UNCHANGED <<instance_, is_running, handler, frame, trace, stop_requested>>
     ELSE /\ is_running' = [is_running EXCEPT ![p] = stored_on_error(@)]
          /\ last_call' = [last_call EXCEPT
                             ![p] = Call("with_shutdown_on_error", "caught", 0)]
          /\ \E is_brought_down \in BOOLEAN :
               IF is_brought_down /\ ~f_is_void
               THEN /\ pc' = [pc EXCEPT ![p] = "exited"]
                    /\ exit_code' = [exit_code EXCEPT ![p] = "undefined_behaviour"]
               ELSE UNCHANGED <<pc, exit_code>>
          /\ UNCHANGED <<instance_, handler, frame, trace, stop_requested>>
  /\ UNCHANGED <<input_vars, parser_vars>>

(***************************************************************************)
(* start() (run.hpp).                                                      *)
(***************************************************************************)
\* A variant of the running check of start() that always passes.
start_allowed_always(running) == TRUE

\* DMITIGR_ASSERT(!info.is_running)
start_allowed(running) == ~running

\* if (working_directory.empty()) working_directory = executable.parent_path()
default_working_directory(given, executable) ==
  IF given = <<>> THEN parent_path(executable) ELSE given

\* A variant of the defaulting that does not look at detach.
default_file_in_foreground_too(detach, given, working_directory, executable, ext) ==
  IF given = <<>>
  THEN replace_extension(path_append(working_directory, filename(executable)), ext)
  ELSE given

\* if (detach) { if (file.empty()) { file = working_directory /
\* executable.filename(); file.replace_extension(ext); } }
default_file(detach, given, working_directory, executable, ext) ==
  IF detach /\ given = <<>>
  THEN replace_extension(path_append(working_directory, filename(executable)), ext)
  ELSE given

\* start(detach, startup, working_directory, pid_file, log_file): the
\* assertions and the defaulting of the paths.
start(p) ==
  /\ header = "run.hpp"
  /\ pc[p] = "main"
  /\ IF \/ start_args.startup_null
        \/ ~is_initialized(instance_[p])
        \/ ~start_allowed(is_running[p])
        \/ ~(instance_[p].commands # <<>> /\ is_valid(instance_[p].commands[1]))
     THEN /\ AssertionFails(p, "start")
          /\ UNCHANGED <<frame, trace>>
     ELSE LET executable == instance_[p].commands[1].name
              working_directory ==
                default_working_directory(start_args.working_directory, executable)
          IN /\ frame' = [frame EXCEPT ![p] =
                  [detach |-> start_args.detach,
                   via_start |-> TRUE,
                   working_directory |-> working_directory,
                   pid_file |-> default_file(start_args.detach, start_args.pid_file,
                                             working_directory, executable,
                                             <<".", "p", "i", "d">>),
                   log_file |-> default_file(start_args.detach, start_args.log_file,
                                             working_directory, executable,
                                             <<".", "l", "o", "g">>)]]
             /\ trace' = [trace EXCEPT ![p] = <<>>]
             /\ pc' = [pc EXCEPT ![p] = IF start_args.detach
                                         THEN "create_directories"
                                         ELSE "start_chdir"]
             /\ UNCHANGED <<exit_code, last_call>>
  /\ UNCHANGED <<input_vars, parser_vars, instance_, is_running, handler,
                 stop_requested>>

\* fs::create_directories(pid_file.parent_path()) and the same for log_file:
\* an empty path is refused, any other may fail in the file system; the
\* filesystem_error leaves start().
start_create_directories(p) ==
  /\ pc[p] = "create_directories"
  /\ \E created \in BOOLEAN :
       IF /\ created
          /\ parent_path(frame[p].pid_file) # <<>>
          /\ parent_path(frame[p].log_file) # <<>>
       THEN /\ pc' = [pc EXCEPT ![p] = "detach"]
            /\ trace' = [trace EXCEPT ![p] = Append(@, E("create_directories", "ok"))]
            /\ UNCHANGED <<frame, last_call>>
       ELSE /\ StartThrows(p)
            /\ trace' = [trace EXCEPT ![p] = Append(@, E("create_directories", "failed"))]
  /\ UNCHANGED <<input_vars, parser_vars, exit_code, instance_, is_running, handler,
                 stop_requested>>

\* The non-detached path: DMITIGR_ASSERT(!working_directory.empty()) and
\* std::filesystem::current_path(working_directory, errc).
start_chdir(p) ==
  /\ pc[p] = "start_chdir"
  /\ IF frame[p].working_directory = <<>>
     THEN /\ AssertionFails(p, "start")
          /\ UNCHANGED trace
     ELSE \E changed \in BOOLEAN :
            IF changed
            THEN /\ pc' = [pc EXCEPT ![p] = "start_dump_pid"]
                 /\ trace' = [trace EXCEPT ![p] = Append(@, E("chdir", "ok"))]
                 /\ UNCHANGED <<exit_code, last_call>>
            ELSE /\ Exits(p, "EXIT_FAILURE",
                          <<E("chdir", "failed"), E("diagnostic", "written")>>)
                 /\ UNCHANGED last_call
  /\ UNCHANGED <<input_vars, parser_vars, instance_, is_running, handler, frame,
                 stop_requested>>

\* if (!pid_file.empty()) log::dump_pid(pid_file): not guarded, its
\* exception leaves start().
start_dump_pid(p) ==
  /\ pc[p] = "start_dump_pid"
  /\ IF frame[p].pid_file = <<>>
     THEN /\ pc' = [pc EXCEPT ![p] = "start_redirect_clog"]
          /\ UNCHANGED <<trace, frame, last_call>>
     ELSE \E written \in BOOLEAN :
            IF written
            THEN /\ pc' = [pc EXCEPT ![p] = "start_redirect_clog"]
                 /\ trace' = [trace EXCEPT ![p] = Append(@, E("dump_pid", "ok"))]
                 /\ UNCHANGED <<frame, last_call>>
            ELSE /\ StartThrows(p)
                 /\ trace' = [trace EXCEPT ![p] = Append(@, E("dump_pid", "failed"))]
  /\ UNCHANGED <<input_vars, parser_vars, exit_code, instance_, is_running, handler,
                 stop_requested>>

\* if (!log_file.empty()) log::redirect_clog(log_file, log_file_mode): not
\* guarded either.
start_redirect_clog(p) ==
  /\ pc[p] = "start_redirect_clog"
  /\ IF frame[p].log_file = <<>>
     THEN /\ pc' = [pc EXCEPT ![p] = "run"]
          /\ UNCHANGED <<trace, frame, last_call>>
     ELSE \E redirected \in BOOLEAN :
            IF redirected
            THEN /\ pc' = [pc EXCEPT ![p] = "run"]
                 /\ trace' = [trace EXCEPT ![p] = Append(@, E("redirect_clog", "ok"))]
                 /\ UNCHANGED <<frame, last_call>>
            ELSE /\ StartThrows(p)
                 /\ trace' = [trace EXCEPT ![p] = Append(@, E("redirect_clog", "failed"))]
  /\ UNCHANGED <<input_vars, parser_vars, exit_code, instance_, is_running, handler,
                 stop_requested>>

\* The closure run: info.is_running = true ...
run_marks_running(p) ==
  /\ pc[p] = "run"
  /\ is_running' = [is_running EXCEPT ![p] = TRUE]
  /\ stop_requested' = [stop_requested EXCEPT ![p] = FALSE]
  /\ pc' = [pc EXCEPT ![p] = "call_startup"]
  /\ trace' = [trace EXCEPT ![p] = Append(@, E("mark_running", "ok"))]
  /\ UNCHANGED <<input_vars, parser_vars, exit_code, instance_, handler, frame,
                 last_call>>

\* ... startup(): the routine is entered.
startup_begins(p) ==
  /\ pc[p] = "call_startup"
  /\ pc' = [pc EXCEPT ![p] = "startup"]
  /\ trace' = [trace EXCEPT ![p] = Append(@, E("startup", "invoked"))]
  /\ UNCHANGED <<input_vars, parser_vars, exit_code, instance_, is_running, handler,
                 frame, last_call, stop_requested>>

\* A variant of the handlers around startup() without the catch (...).
startup_error_is_caught_std_only(how) == how = "threw_exception"

\* catch (const std::exception&) and catch (...) around startup(), in the
\* closure run and in detach().
startup_error_is_caught(how) == how \in {"threw_exception", "threw_other"}

\* The routine returns, and with it detach() and start(); or it throws a
\* std::exception or anything else, which the closure run (under start) or
\* detach() (called directly) catches, reports and turns into an exit.
startup_ends(p, how) ==
  /\ pc[p] = "startup"
  /\ IF how = "returns"
     THEN /\ pc' = [pc EXCEPT ![p] = "main"]
          /\ trace' = [trace EXCEPT ![p] = Append(@, E("startup", "returned"))]
          /\ last_call' = [last_call EXCEPT
               ![p] = Call(IF frame[p].via_start THEN "start" ELSE "detach",
                           "returned", 0)]
          /\ frame' = [frame EXCEPT ![p] = NoFrame]
          /\ UNCHANGED exit_code
     ELSE IF startup_error_is_caught(how)
     THEN /\ Exits(p, "EXIT_FAILURE", <<E("startup", how), E("diagnostic", "written")>>)
          /\ UNCHANGED <<frame, last_call>>
     ELSE /\ pc' = [pc EXCEPT ![p] = "main"]
          /\ trace' = [trace EXCEPT ![p] = Append(@, E("startup", how))]
          /\ last_call' = [last_call EXCEPT
               ![p] = Call(IF frame[p].via_start THEN "start" ELSE "detach",
                           "threw", 0)]
          /\ frame' = [frame EXCEPT ![p] = NoFrame]
          /\ UNCHANGED exit_code
  /\ UNCHANGED <<input_vars, parser_vars, instance_, is_running, handler,
                 stop_requested>>

(***************************************************************************)
(* detach() (detach.hpp).                                                  *)
(***************************************************************************)
\* The application calls detach() itself, with its own startup routine.
call_detach(p) ==
  /\ pc[p] = "main"
  /\ frame' = [frame EXCEPT ![p] =
       [detach |-> TRUE, via_start |-> FALSE,
        working_directory |-> start_args.working_directory,
        pid_file |-> start_args.pid_file,
        log_file |-> start_args.log_file]]
  /\ trace' = [trace EXCEPT ![p] = <<>>]
  /\ pc' = [pc EXCEPT ![p] = "detach"]
  /\ UNCHANGED <<input_vars, parser_vars, exit_code, instance_, is_running, handler,
                 last_call, stop_requested>>

\* A variant of the checks that forgets the log file.
detach_refuses_no_log_check(working_directory, pid_file, log_file) ==
  \/ working_directory = <<>>
  \/ pid_file = <<>> \/ pid_file = Dot \/ pid_file = DotDot

\* The three checks at the head of detach(), each of which ends in
\* std::exit(EXIT_SUCCESS).
detach_refuses(working_directory, pid_file, log_file) ==
  \/ working_directory = <<>>
  \/ pid_file = <<>> \/ pid_file = Dot \/ pid_file = DotDot
  \/ log_file = <<>> \/ log_file = Dot \/ log_file = DotDot

\* std::exit(EXIT_SUCCESS) of the three checks.
exit_code_on_refusal == "EXIT_SUCCESS"

\* DMITIGR_ASSERT(startup) and the checks of the paths.
detach_validates(p) ==
  /\ pc[p] = "detach"
  /\ IF ~frame[p].via_start /\ start_args.startup_null
     THEN /\ AssertionFails(p, "detach")
          /\ UNCHANGED trace
     ELSE IF detach_refuses(frame[p].working_directory, frame[p].pid_file,
                            frame[p].log_file)
     THEN /\ Exits(p, exit_code_on_refusal,
                   <<E("validate", "refused"), E("diagnostic", "written")>>)
          /\ UNCHANGED last_call
     ELSE /\ pc' = [pc EXCEPT ![p] = "fork1"]
          /\ trace' = [trace EXCEPT ![p] = Append(@, E("validate", "ok"))]
          /\ UNCHANGED <<exit_code, last_call>>
  /\ UNCHANGED <<input_vars, parser_vars, instance_, is_running, handler, frame,
                 stop_requested>>

\* A variant in which a failed log redirect is reported as a success.
exit_code_on_failure_redirect_succeeds(step) ==
  IF step = "redirect_clog" THEN "EXIT_SUCCESS" ELSE "EXIT_FAILURE"

\* std::exit(EXIT_FAILURE) on the failure branch of every step of detach().
exit_code_on_failure(step) == "EXIT_FAILURE"

\* The process that fork() creates in the first free slot.
forked(free) == CHOOSE c \in free : \A d \in free : c <= d

\* A variant in which the parent does not exit and goes on with the child.
parent_after_fork_continues(next) == next

\* else if (pid > 0) std::exit(EXIT_SUCCESS): where the parent's control is
\* after a successful fork.
parent_after_fork(next) == "exited"

\* ::fork(): it fails (pid < 0) and the caller exits with failure, or the
\* parent (pid > 0) exits with success and the child, a copy of the
\* parent, goes on at `next`.
fork(p, step, next) ==
  /\ LET free == {c \in Procs : pc[c] = "absent"}
     IN \/ /\ Exits(p, exit_code_on_failure(step),
                    <<E(step, "failed"), E("diagnostic", "written")>>)
           /\ UNCHANGED <<instance_, is_running, handler, frame, last_call,
                          stop_requested>>
        \/ /\ free # {}
           /\ LET c == forked(free)
              IN /\ pc' = [pc EXCEPT ![p] = parent_after_fork(next), ![c] = next]
                 /\ exit_code' = [exit_code EXCEPT ![p] = "EXIT_SUCCESS"]
                 /\ trace' = [trace EXCEPT ![p] = Append(@, E(step, "parent")),
                                           ![c] = Append(trace[p], E(step, "ok"))]
                 /\ instance_' = [instance_ EXCEPT ![c] = instance_[p]]
                 /\ is_running' = [is_running EXCEPT ![c] = is_running[p]]
                 /\ handler' = [handler EXCEPT ![c] = handler[p]]
                 /\ frame' = [frame EXCEPT ![c] = frame[p]]
                 /\ last_call' = [last_call EXCEPT ![c] = last_call[p]]
                 /\ stop_requested' = [stop_requested EXCEPT ![c] = stop_requested[p]]
  /\ UNCHANGED <<input_vars, parser_vars>>

\* A step of detach() that may fail: it succeeds and control moves to
\* `next`, or it fails, the diagnostic is written and the process exits.
fallible_step(p, step, next) ==
  /\ \E succeeded \in BOOLEAN :
       IF succeeded
       THEN /\ pc' = [pc EXCEPT ![p] = next]
            /\ trace' = [trace EXCEPT ![p] = Append(@, E(step, "ok"))]
            /\ UNCHANGED exit_code
       ELSE Exits(p, exit_code_on_failure(step),
                  <<E(step, "failed"), E("diagnostic", "written")>>)
  /\ UNCHANGED <<input_vars, parser_vars, instance_, is_running, handler, frame,
                 last_call, stop_requested>>

\* A variant in which the child of the first fork runs the callback at
\* once, without the rest of the daemonization.
detach_first_fork_then_runs(p) ==
  /\ pc[p] = "fork1"
  /\ fork(p, "fork1", "run")

\* Forking for a first time.
detach_first_fork(p) ==
  /\ pc[p] = "fork1"
  /\ fork(p, "fork1", "umask")

\* ::umask(S_IWGRP | S_IRWXO): cannot fail.
detach_umask(p) ==
  /\ pc[p] = "umask"
  /\ pc' = [pc EXCEPT ![p] = "redirect_clog"]
  /\ trace' = [trace EXCEPT ![p] = Append(@, E("umask", "ok"))]
  /\ UNCHANGED <<input_vars, parser_vars, exit_code, instance_, is_running, handler,
                 frame, last_call, stop_requested>>

\* log::redirect_clog(log_file, log_file_openmode)
detach_redirect_clog(p) ==
  /\ pc[p] = "redirect_clog"
  /\ fallible_step(p, "redirect_clog", "setsid")

\* ::setsid()
detach_setsid(p) ==
  /\ pc[p] = "setsid"
  /\ fallible_step(p, "setsid", "fork2")

\* Forking for a second time.
detach_second_fork(p) ==
  /\ pc[p] = "fork2"
  /\ fork(p, "fork2", "dump_pid")

\* A variant that closes the descriptors right after the PID write, leaving
\* out the change of the working directory.
detach_dump_pid_then_closes(p) ==
  /\ pc[p] = "dump_pid"
  /\ fallible_step(p, "dump_pid", "close0")

\* log::dump_pid(pid_file)
detach_dump_pid(p) ==
  /\ pc[p] = "dump_pid"
  /\ fallible_step(p, "dump_pid", "chdir")

\* std::filesystem::current_path(working_directory)
detach_chdir(p) ==
  /\ pc[p] = "chdir"
  /\ fallible_step(p, "chdir", "close0")

\* close_fd(STDIN_FILENO)
detach_close_stdin(p) ==
  /\ pc[p] = "close0"
  /\ fallible_step(p, "close0", "close1")

\* close_fd(STDOUT_FILENO)
detach_close_stdout(p) ==
  /\ pc[p] = "close1"
  /\ fallible_step(p, "close1", "close2")

\* close_fd(STDERR_FILENO); then startup(), which under start() is the
\* closure run.
detach_close_stderr(p) ==
  /\ pc[p] = "close2"
  /\ fallible_step(p, "close2",
                   IF frame[p].via_start THEN "run" ELSE "call_startup")

(***************************************************************************)
(* The lifecycle specification: one process is started with a command      *)
(* line; the application calls the library in any order while signals      *)
(* arrive at any time.                                                     *)
(***************************************************************************)
InitProcs ==
  /\ pc = [p \in Procs |-> IF p = 0 THEN "main" ELSE "absent"]
  /\ exit_code = [p \in Procs |-> "none"]
  /\ instance_ = [p \in Procs |-> NoInstance]
  /\ is_running = [p \in Procs |-> FALSE]
  /\ handler = [p \in Procs |-> FALSE]
  /\ frame = [p \in Procs |-> NoFrame]
  /\ trace = [p \in Procs |-> <<>>]
  /\ last_call = [p \in Procs |-> NoCall]
  /\ stop_requested = [p \in Procs |-> FALSE]

Init ==
  /\ \E i \in MainInputs :
       /\ argc = i.argc
       /\ argv = i.argv
       /\ argv_null = i.argv_null
  /\ is_one_command_mode = FALSE
  /\ parsed = NotParsed
  /\ queried = NotQueried
  /\ header \in {"run.hpp", "info.hpp"}
  /\ start_args \in IF header = "run.hpp" THEN StartArgs ELSE {NoStartArgs}
  /\ InitProcs

Next ==
  \E p \in Procs :
    \/ Info_initialize_run(p)
    \/ Info_initialize_info(p)
    \/ Info_instance(p)
    \/ set_signals(p)
    \/ \E sig \in Signals : handle_signal(p, sig)
    \/ \E f_throws, f_is_void \in BOOLEAN : with_shutdown_on_error(p, f_throws, f_is_void)
    \/ start(p)
    \/ start_create_directories(p)
    \/ start_chdir(p)
    \/ start_dump_pid(p)
    \/ start_redirect_clog(p)
    \/ run_marks_running(p)
    \/ startup_begins(p)
    \/ \E how \in {"returns", "threw_exception", "threw_other"} : startup_ends(p, how)
    \/ call_detach(p)
    \/ detach_validates(p)
    \/ detach_first_fork(p)
    \/ detach_umask(p)
    \/ detach_redirect_clog(p)
    \/ detach_setsid(p)
    \/ detach_second_fork(p)
    \/ detach_dump_pid(p)
    \/ detach_chdir(p)
    \/ detach_close_stdin(p)
    \/ detach_close_stdout(p)
    \/ detach_close_stderr(p)

Spec == Init /\ [][Next]_vars

(***************************************************************************)
(* The parser specification: a command line and a mode are drawn, and the  *)
(* parser is applied to them.                                              *)
(***************************************************************************)
InitParse ==
  /\ argc \in -1..MaxArgc
  /\ argv_null \in BOOLEAN
  /\ argv \in IF argv_null \/ argc <= 0 THEN {<<>>} ELSE [1..argc -> Tokens]
  /\ is_one_command_mode \in BOOLEAN
  /\ parsed = NotParsed
  /\ queried = NotQueried
  /\ header = "run.hpp"
  /\ start_args = NoStartArgs
  /\ InitProcs

\* parsed_commands(argc, argv, is_one_command_mode) is called.
call_parsed_commands ==
  /\ parsed.fn = "none"
  /\ parsed' = [fn |-> "parsed_commands",
                result |-> parsed_commands(argc, argv_null, argv, is_one_command_mode)]
  /\ UNCHANGED <<input_vars, proc_vars, queried>>

\* parsed_command(argc, argv) is called.
call_parsed_command ==
  /\ parsed.fn = "none"
  /\ parsed' = [fn |-> "parsed_command",
                result |-> parsed_command(argc, argv_null, argv)]
  /\ UNCHANGED <<input_vars, proc_vars, queried>>

NextParse ==
  \/ call_parsed_commands
  \/ call_parsed_command

SpecParse == InitParse /\ [][NextParse]_vars

(***************************************************************************)
(* The command specification: a command line is parsed and one accessor    *)
(* of the result is called.                                                *)
(***************************************************************************)
\* The longest command line of the command specification.
MaxQueryArgc == 3

\* The longest list of names handed to options_strict.
MaxNames == 2

\* The option names asked for: "", a and b.
QueryNames == { <<>>, <<"a">>, <<"b">> }

NameLists == UNION { [1..n -> QueryNames] : n \in 0..MaxNames }

\* The delimiters handed to command_id: the default ".", "" and "::".
Delims == { <<".">>, <<>>, <<":", ":">> }

\* What a call that ran into undefined behaviour can end in: a value that
\* means nothing, or the end of the process.
Terminated == [threw |-> FALSE, what |-> <<"terminated">>, value |-> <<>>]
Undefined == { Value(<<>>), Value(<<"?">>), Terminated }

InitCommand ==
  /\ argc \in 1..MaxQueryArgc
  /\ argv_null = FALSE
  /\ argv \in [1..argc -> Tokens]
  /\ is_one_command_mode \in BOOLEAN
  /\ parsed = NotParsed
  /\ queried = NotQueried
  /\ header = "run.hpp"
  /\ start_args = NoStartArgs
  /\ InitProcs

\* The parser returned and nothing was asked of its result yet.
CanQuery ==
  /\ parsed.fn # "none"
  /\ parsed.result.ok
  /\ queried.fn = "none"

Queried(fn, args, result) ==
  /\ queried' = [fn |-> fn, args |-> args, result |-> result]
  /\ UNCHANGED <<input_vars, parsed, proc_vars>>

\* commands[0].option(name)
call_option(name) ==
  /\ CanQuery
  /\ Queried("option", <<name>>, Value(option(parsed.result.commands[1], name)))

\* commands[0].option(name).is_valid_throw_if_value()
call_is_valid_throw_if_value(name) ==
  /\ CanQuery
  /\ Queried("is_valid_throw_if_value", <<name>>,
             is_valid_throw_if_value(option(parsed.result.commands[1], name)))

\* commands[0].option(name).is_valid_throw_if_no_value()
call_is_valid_throw_if_no_value(name) ==
  /\ CanQuery
  /\ Queried("is_valid_throw_if_no_value", <<name>>,
             is_valid_throw_if_no_value(option(parsed.result.commands[1], name)))

\* commands[0].option(name).value_of_mandatory()
call_value_of_mandatory(name) ==
  /\ CanQuery
  /\ Queried("value_of_mandatory", <<name>>,
             value_of_mandatory(option(parsed.result.commands[1], name)))

\* commands[0].option(name).value_of_mandatory_not_null()
call_value_of_mandatory_not_null(name) ==
  /\ CanQuery
  /\ Queried("value_of_mandatory_not_null", <<name>>,
             value_of_mandatory_not_null(option(parsed.result.commands[1], name)))

\* commands[0].option(name).value_of_mandatory_not_empty()
call_value_of_mandatory_not_empty(name) ==
  /\ CanQuery
  /\ Queried("value_of_mandatory_not_empty", <<name>>,
             value_of_mandatory_not_empty(option(parsed.result.commands[1], name)))

\* commands[0].options_strict(names...)
call_options_strict(names) ==
  /\ CanQuery
  /\ Queried("options_strict", names,
             options_strict(parsed.result.commands[1], names))

\* command_id(commands, offset, delim)
call_command_id(offset, delim) ==
  /\ CanQuery
  /\ \E undefined \in Undefined :
       Queried("command_id", <<offset, delim>>,
               command_id(parsed.result.commands, offset, delim, undefined))

\* command_id(commands[0].parameters(), offset, delim)
call_command_id_of_parameters(offset, delim) ==
  /\ CanQuery
  /\ \E undefined \in Undefined :
       Queried("command_id_of_parameters", <<offset, delim>>,
               command_id_of_parameters(parsed.result.commands[1].parameters,
                                        offset, delim, undefined))

NextCommand ==
  \/ call_parsed_commands
  \/ call_parsed_command
  \/ \E name \in QueryNames :
       \/ call_option(name)
       \/ call_is_valid_throw_if_value(name)
       \/ call_is_valid_throw_if_no_value(name)
       \/ call_value_of_mandatory(name)
       \/ call_value_of_mandatory_not_null(name)
       \/ call_value_of_mandatory_not_empty(name)
  \/ \E names \in NameLists : call_options_strict(names)
  \/ \E offset \in 0..MaxQueryArgc, delim \in Delims :
       \/ call_command_id(offset, delim)
       \/ call_command_id_of_parameters(offset, delim)

SpecCommand == InitCommand /\ [][NextCommand]_vars

(***************************************************************************)
(* The documented grammar of a command line, stated on its own:            *)
(*   "--" alone is the end marker, "--NAME=VALUE" an option with a value,  *)
(*   "--NAME" an option without one, anything else a name or parameter.    *)
(***************************************************************************)
Min(S) == CHOOSE i \in S : \A j \in S : i <= j
Max(S) == CHOOSE i \in S : \A j \in S : j <= i

HasTwoDashes(t) == Len(t) >= 2 /\ SubSeq(t, 1, 2) = <<"-", "-">>
IsEndMarker(t) == t = <<"-", "-">>
IsOptionToken(t) == HasTwoDashes(t) /\ ~IsEndMarker(t)

EqualsIn(t) == {i \in 3..Len(t) : t[i] = "="}
NameOf(t) ==
  IF EqualsIn(t) = {} THEN SubSeq(t, 3, Len(t)) ELSE SubSeq(t, 3, Min(EqualsIn(t)) - 1)
ValueOf(t) ==
  IF EqualsIn(t) = {} THEN Nullopt ELSE Some(SubSeq(t, Min(EqualsIn(t)) + 1, Len(t)))

\* The options that the option tokens av[lo..hi] denote, a repeated name
\* keeping its last occurrence.
OptionsOf(av, lo, hi) ==
  [k \in {NameOf(av[i]) : i \in lo..hi} |->
     ValueOf(av[Max({i \in lo..hi : NameOf(av[i]) = k})])]

\* The first position after `from` whose token is not an option token,
\* Len(av) + 1 when there is none.
ScanStop(av, from) ==
  LET stops == {i \in (from + 1)..Len(av) : ~IsOptionToken(av[i])}
  IN IF stops = {} THEN Len(av) + 1 ELSE Min(stops)

\* The position of the first end marker after the program name.
FirstMarker(av) ==
  LET marks == {i \in 2..Len(av) : IsEndMarker(av[i])}
  IN IF marks = {} THEN Len(av) + 1 ELSE Min(marks)

\* The positions of the command names of a multi-command line.
NamePositions(av) ==
  {1} \cup {i \in 2..(FirstMarker(av) - 1) : ~HasTwoDashes(av[i])}

\* The k-th smallest element of a set of positions.
RECURSIVE Nth(_, _)
Nth(S, k) == IF k = 1 THEN Min(S) ELSE Nth(S \ {Min(S)}, k - 1)

\* A call of parsed_commands on a well-formed command line came back.
ParsedCommandsCalled ==
  /\ parsed.fn = "parsed_commands"
  /\ argc >= 1
  /\ ~argv_null

Result == parsed.result

\* A call in single-command mode on a command line with a program name.
SingleCommandCalled ==
  /\ \/ parsed.fn = "parsed_command"
     \/ parsed.fn = "parsed_commands" /\ is_one_command_mode
  /\ argc >= 1
  /\ ~argv_null
  /\ argv[1] # <<>>

(***************************************************************************)
(* Claims about the parser, checked under SpecParse.                       *)
(***************************************************************************)
\* C2: in multi-command mode, on a command line of non-empty tokens, the
\* commands are named by argv[0] and by every token without a leading "--"
\* that comes before the first "--" marker, in order; the last command gets
\* the tokens after the marker as its parameters and no other command has
\* parameters.
C2_MultiCommandGrammar ==
  (/\ ParsedCommandsCalled
   /\ ~is_one_command_mode
   /\ \A i \in 1..argc : argv[i] # <<>>)
  => LET names == NamePositions(argv)
         k == Cardinality(names)
     IN /\ Result.ok
        /\ Len(Result.commands) = k
        /\ \A j \in 1..k :
             /\ Result.commands[j].name = argv[Nth(names, j)]
             /\ Result.commands[j].parameters =
                  IF j = k THEN SubSeq(argv, FirstMarker(argv) + 1, argc) ELSE <<>>

\* C3: in single-command mode every command line with a non-empty argv[0]
\* parses to exactly one command, named argv[0], whose options are those of
\* the option tokens before the first token that is not one: "--k=v" with
\* the value v (possibly empty), "--k" with no value.
C3_SingleCommandOptions ==
  SingleCommandCalled
  => /\ Result.ok
     /\ Len(Result.commands) = 1
     /\ Result.commands[1].name = argv[1]
     /\ Result.commands[1].options = OptionsOf(argv, 2, ScanStop(argv, 1) - 1)

\* C4 as claimed: in single-command mode the parameters are the token at
\* which option scanning stops (the first token that is not an option, or
\* the "--" marker) and every token after it.
C4_StoppingTokenIncluded ==
  SingleCommandCalled
  => /\ Result.ok
     /\ Result.commands[1].parameters = SubSeq(argv, ScanStop(argv, 1), argc)

\* The tokens the parser consumes as the end marker: "--" and, as C5 shows,
\* every token that starts with "--=".
ConsumedAsMarker(t) == HasTwoDashes(t) /\ NameOf(t) = <<>>

\* The first position after the program name whose token is not recorded
\* as an option.
RecordedStop(av) ==
  LET stops == {i \in 2..Len(av) : ~HasTwoDashes(av[i]) \/ ConsumedAsMarker(av[i])}
  IN IF stops = {} THEN Len(av) + 1 ELSE Min(stops)

\* C4 as amended: in single-command mode, when option scanning stops at a
\* token without a leading "--", that token and every token after it are
\* the parameters, in order; when it stops at a token consumed as the end
\* marker, the marker is dropped and the tokens after it are the parameters;
\* no token from the stopping point on is recorded as an option.
C4_ParametersFromTheStop ==
  SingleCommandCalled
  => LET stop == RecordedStop(argv)
         command == Result.commands[1]
     IN /\ Result.ok
        /\ command.parameters =
             IF stop <= argc /\ ConsumedAsMarker(argv[stop])
             THEN SubSeq(argv, stop + 1, argc)
             ELSE SubSeq(argv, stop, argc)
        /\ DOMAIN command.options = {NameOf(argv[i]) : i \in 2..(stop - 1)}

\* C4 witness: a "--" marker stopped the scan of a single command and a
\* token that looks like an option follows it as a parameter.
C4_Witness ==
  /\ SingleCommandCalled
  /\ Result.ok
  /\ RecordedStop(argv) < argc
  /\ IsEndMarker(argv[RecordedStop(argv)])
  /\ IsOptionToken(argv[argc])
  /\ Result.commands[1].parameters # <<>>
  /\ Result.commands[1].parameters[Len(Result.commands[1].parameters)] = argv[argc]

\* C5: only the token "--" is the end marker.  Every other token with a
\* leading "--" that is scanned for the first command is recorded as an
\* option of it and does not stop the scan: the parameters (single-command
\* mode) or the next command (multi-command mode) begin at the first token
\* without a leading "--", or right after the first "--".
C5_OnlyTwoDashesEndOptions ==
  (ParsedCommandsCalled /\ Result.ok)
  => LET stop == ScanStop(argv, 1)
         first == Result.commands[1]
     IN /\ \A i \in 2..(stop - 1) : NameOf(argv[i]) \in DOMAIN first.options
        /\ (stop <= argc /\ IsEndMarker(argv[stop]))
           => /\ Len(Result.commands) = 1
              /\ first.parameters = SubSeq(argv, stop + 1, argc)
        /\ (stop <= argc /\ ~IsEndMarker(argv[stop]))
           => IF is_one_command_mode
              THEN first.parameters = SubSeq(argv, stop, argc)
              ELSE /\ Len(Result.commands) >= 2
                   /\ Result.commands[2].name = argv[stop]

\* C6: parsed_commands fails when argc <= 0, when argv is null, and when an
\* empty token stands where a command name is expected (argv[0]; in
\* multi-command mode also every token that starts a command), naming the
\* first such position; otherwise it returns a non-empty sequence of
\* commands with non-empty names.
C6_GrammarErrors ==
  parsed.fn = "parsed_commands"
  => IF argc <= 0 \/ argv_null
     THEN ~Result.ok /\ Result.at = -1
     ELSE LET positions == IF is_one_command_mode THEN {1} ELSE NamePositions(argv)
              empty == {i \in positions : argv[i] = <<>>}
          IN IF empty # {}
             THEN /\ ~Result.ok
                  /\ Result.what = "empty command name at argv[argi]"
                  /\ Result.at = Min(empty) - 1
             ELSE /\ Result.ok
                  /\ Result.commands # <<>>
                  /\ \A j \in 1..Len(Result.commands) : is_valid(Result.commands[j])

(***************************************************************************)
(* Claims about the registry, the signal handler and detach(), checked     *)
(* under Spec.                                                             *)
(***************************************************************************)
\* The steps of the daemonization sequence that can fail.
FallibleSteps ==
  {"fork1", "redirect_clog", "setsid", "fork2", "dump_pid", "chdir",
   "close0", "close1", "close2", "startup"}

\* The results that record a failed step.
Failures == {"failed", "threw_exception", "threw_other"}

FailedAt(p, i) ==
  /\ frame[p].detach
  /\ trace[p][i][1] \in FallibleSteps
  /\ trace[p][i][2] \in Failures

\* C1: in detach(), a process that saw one of the steps (first fork, log
\* redirect, setsid, second fork, PID file, chdir, the three closes,
\* startup) fail has exited with EXIT_FAILURE, every step before the failed
\* one succeeded in order, and nothing but the diagnostic follows the
\* failed step: no later step ran in it.
C1_FailureIsFatal ==
  \A p \in Procs : \A i \in 1..Len(trace[p]) :
    FailedAt(p, i)
    => /\ pc[p] = "exited"
       /\ exit_code[p] = "EXIT_FAILURE"
       /\ \A j \in (i + 1)..Len(trace[p]) : trace[p][j] = E("diagnostic", "written")
       /\ \A j \in 1..(i - 1) : trace[p][j][2] \notin Failures

\* C1 witness: the PID file could not be written in the twice-forked
\* process, after the log redirect had succeeded.
C1_Witness ==
  \E p \in Procs : \E i \in 1..Len(trace[p]) :
    /\ FailedAt(p, i)
    /\ trace[p][i][1] = "dump_pid"
    /\ \E j \in 1..(i - 1) : trace[p][j] = E("redirect_clog", "ok")

\* C7: once handle_signal has handled SIGINT in a process whose registry is
\* initialized, is_running is false there, and stays false in every later
\* state until the closure run of start() marks the registry running
\* again; handling SIGINT once more changes nothing.
C7_InterruptRequestsStop ==
  [][\A p \in Procs :
       /\ stop_requested'[p] => ~is_running'[p]
       /\ (stop_requested[p] /\ handle_signal(p, "SIGINT")) => UNCHANGED proc_vars]_vars

\* C7 witness: SIGINT was handled while the startup routine was running.
C7_Witness ==
  \E p \in Procs :
    /\ stop_requested[p]
    /\ pc[p] = "startup"
    /\ trace[p] # <<>>
    /\ trace[p][Len(trace[p])] = E("startup", "invoked")
    /\ ~is_running[p]

\* A library call came back (or ended the process) in this step.
CallEnds(p, fn) ==
  /\ pc[p] = "main"
  /\ last_call'[p].fn = fn
  /\ last_call'[p] # last_call[p]

\* C8: the registry is constructed at most once per process.  instance()
\* on a registry that is not initialized and initialize() on one that is
\* end the process in an assertion failure; once initialized, the registry
\* stays the same object with the same commands, and instance() returns it.
C8_ConstructedOnce ==
  [][\A p \in Procs :
       /\ (CallEnds(p, "instance") /\ ~instance_[p].initialized)
          => /\ last_call'[p].outcome = "assertion"
             /\ pc'[p] = "exited"
             /\ exit_code'[p] = "assertion_failure"
       /\ (CallEnds(p, "initialize") /\ instance_[p].initialized)
          => /\ last_call'[p].outcome = "assertion"
             /\ pc'[p] = "exited"
             /\ exit_code'[p] = "assertion_failure"
       /\ instance_[p].initialized
          => /\ instance_'[p] = instance_[p]
             /\ CallEnds(p, "instance")
                => last_call'[p] = Call("instance", "returned", instance_[p].id)
       /\ instance_'[p].id <= 1]_vars

\* C8 witness: initialize() was called a second time.
C8_Witness ==
  \E p \in Procs :
    /\ instance_[p].initialized
    /\ last_call[p] = Call("initialize", "assertion", 0)
    /\ pc[p] = "exited"

\* The input that C9 calls invalid.
InvalidInput == argc <= 0 \/ argv_null

\* C9 as claimed: initialize() on a null argv or with argc <= 0 ends in an
\* assertion failure and leaves the registry uninitialized.
C9_InvalidInputAsserts ==
  \A p \in Procs :
    (InvalidInput /\ last_call[p].fn = "initialize")
    => /\ last_call[p].outcome = "assertion"
       /\ pc[p] = "exited"
       /\ ~instance_[p].initialized

\* C9 as amended: initialize() on a null argv or with argc <= 0 never
\* initializes the registry.  With run.hpp's Info the call ends in the
\* Exception of parsed_commands, which reaches the caller: no assertion
\* fails (the one on the command sequence cannot);
\* with info.hpp's Info it ends in an assertion failure when argc = 0 or
\* argv is null, and in an exception when argc is negative.
C9_InvalidInputNeverInitializes ==
  \A p \in Procs :
    InvalidInput
    => /\ ~instance_[p].initialized
       /\ last_call[p].fn = "initialize"
          => IF header = "info.hpp" /\ (argc = 0 \/ argv_null)
             THEN /\ last_call[p].outcome = "assertion"
                  /\ exit_code[p] = "assertion_failure"
             ELSE /\ last_call[p].outcome = "threw"
                  /\ exit_code[p] # "assertion_failure"

\* C9 witness: run.hpp's initialize() was called with a null argv and the
\* caller got the exception.
C9_Witness ==
  /\ header = "run.hpp"
  /\ argv_null
  /\ last_call[0] = Call("initialize", "threw", 0)
  /\ pc[0] = "main"

\* The position of the path validation in the steps of process p, while
\* the call of detach() is in progress or has ended the process.
Validated(p) ==
  {i \in 1..Len(trace[p]) : frame[p].detach /\ trace[p][i][1] = "validate"}

Invalid(path) == path \in {<<>>, Dot, DotDot}

\* What detach() does when it refuses its paths: a diagnostic and
\* std::exit(EXIT_SUCCESS), with no step of the daemonization.
Refused(p, i) ==
  /\ pc[p] = "exited"
  /\ exit_code[p] = "EXIT_SUCCESS"
  /\ SubSeq(trace[p], i, Len(trace[p])) =
       <<E("validate", "refused"), E("diagnostic", "written")>>

\* The process was ended by a signal handler, not by a step of its own.
EndedBySignal(p) ==
  /\ pc[p] = "exited"
  /\ exit_code[p] \in {"quick_exit", "assertion_failure"}

\* The paths passed the validation: the first fork is the next step, if a
\* signal does not end the process before it.
Passed(p, i) ==
  /\ trace[p][i] = E("validate", "ok")
  /\ \/ Len(trace[p]) = i /\ (pc[p] = "fork1" \/ EndedBySignal(p))
     \/ Len(trace[p]) > i /\ trace[p][i + 1][1] = "fork1"

\* C10 as claimed: detach() refuses a working directory, PID file or log
\* file that is empty, "." or "..", and otherwise attempts the first fork.
C10_DotsRefusedEverywhere ==
  \A p \in Procs : \A i \in Validated(p) :
    IF \/ Invalid(frame[p].working_directory)
       \/ Invalid(frame[p].pid_file)
       \/ Invalid(frame[p].log_file)
    THEN Refused(p, i)
    ELSE Passed(p, i)

\* C10 as amended: detach() (its startup assertion passed) refuses an empty
\* working directory and a PID file or log file that is empty, "." or
\* "..": it writes a diagnostic and exits with success without forking,
\* redirecting the log, writing the PID file or invoking startup.
\* Otherwise, a working directory "." or ".." included, it attempts the
\* first fork.
C10_PathsValidatedFirst ==
  \A p \in Procs : \A i \in Validated(p) :
    IF \/ frame[p].working_directory = <<>>
       \/ Invalid(frame[p].pid_file)
       \/ Invalid(frame[p].log_file)
    THEN Refused(p, i)
    ELSE Passed(p, i)

\* C10 witness: detach() was given the working directory ".." and valid
\* file names, and went on to fork.
C10_Witness ==
  \E p \in Procs : \E i \in Validated(p) :
    /\ frame[p].working_directory = DotDot
    /\ Passed(p, i)
    /\ Len(trace[p]) > i

(***************************************************************************)
(* Claims about start(), detach() and with_shutdown_on_error, checked      *)
(* under Spec.                                                             *)
(***************************************************************************)
\* The positions of event e in the steps of process p.
Positions(p, e) == {i \in 1..Len(trace[p]) : trace[p][i] = e}

\* Both forks succeeded, in order, before position i of the steps of p.
TwiceForkedBefore(p, i) ==
  \E j, k \in 1..(i - 1) :
    /\ j < k
    /\ trace[p][j] = E("fork1", "ok")
    /\ trace[p][k] = E("fork2", "ok")

\* C11: during detach(), a process that came out of a fork as the parent
\* has exited with EXIT_SUCCESS and that fork is its last step; the startup
\* routine is entered only in a process that is the child of both forks,
\* at most once, and exactly once wherever control is inside startup, from
\* where alone detach() returns.
C11_ReturnsInTheDaemonOnly ==
  \A p \in Procs :
    frame[p].detach
    => /\ \A i \in 1..Len(trace[p]) :
            trace[p][i][2] = "parent"
            => /\ i = Len(trace[p])
               /\ trace[p][i][1] \in {"fork1", "fork2"}
               /\ pc[p] = "exited"
               /\ exit_code[p] = "EXIT_SUCCESS"
       /\ \A i \in 1..Len(trace[p]) :
            trace[p][i][1] = "startup" => TwiceForkedBefore(p, i)
       /\ Cardinality(Positions(p, E("startup", "invoked"))) <= 1
       /\ pc[p] = "startup"
          => Cardinality(Positions(p, E("startup", "invoked"))) = 1

\* C11 witness: the original process and the intermediate one have exited
\* with success after their fork and the third process runs startup.
C11_Witness ==
  \E p, q, r \in Procs :
    /\ trace[p] # <<>> /\ trace[p][Len(trace[p])] = E("fork1", "parent")
    /\ trace[q] # <<>> /\ trace[q][Len(trace[q])] = E("fork2", "parent")
    /\ exit_code[p] = "EXIT_SUCCESS" /\ exit_code[q] = "EXIT_SUCCESS"
    /\ frame[r].detach /\ pc[r] = "startup"

\* C12: an exception of any kind thrown by the startup routine, on the
\* detached path or not, is the last step of the process but for the
\* diagnostic: the process has exited with EXIT_FAILURE and control did not
\* come back to the caller of start() or detach().
C12_StartupErrorsAreFatal ==
  \A p \in Procs : \A i \in 1..Len(trace[p]) :
    (trace[p][i][1] = "startup" /\ trace[p][i][2] \in {"threw_exception", "threw_other"})
    => /\ pc[p] = "exited"
       /\ exit_code[p] = "EXIT_FAILURE"
       /\ Len(trace[p]) = i + 1
       /\ trace[p][i + 1] = E("diagnostic", "written")

\* C12 witness: startup threw something that is not a std::exception in a
\* foreground run.
C12_Witness ==
  \E p \in Procs :
    /\ frame[p].via_start /\ ~frame[p].detach
    /\ Positions(p, E("startup", "threw_other")) # {}
    /\ pc[p] = "exited"

\* The steps of p are those of the non-detached path of start(), which
\* begins with the change of the working directory.
OnForegroundPath(p) == trace[p] # <<>> /\ trace[p][1][1] = "chdir"

\* C13: on the non-detached path of start(), a failed chdir, PID write or
\* log redirect ends the process with EXIT_FAILURE, with no startup call,
\* no marking of the registry and no step of detach().
C13_ForegroundSetupFailureIsFatal ==
  \A p \in Procs : \A i \in 1..Len(trace[p]) :
    (/\ OnForegroundPath(p)
     /\ trace[p][i] \in {E("chdir", "failed"), E("dump_pid", "failed"),
                         E("redirect_clog", "failed")})
    => /\ pc[p] = "exited"
       /\ exit_code[p] = "EXIT_FAILURE"
       /\ \A j \in 1..Len(trace[p]) :
            trace[p][j][1] \notin {"startup", "mark_running", "validate", "fork1"}

\* C14: under start(), the startup routine is entered right after the
\* registry was marked running, and at most once per call; between the two
\* the registry is running unless SIGINT was handled.  start() on a running
\* registry ends in an assertion failure and takes no step.
C14_RunningBeforeStartup ==
  [][\A p \in Procs :
       /\ frame'[p].via_start
          => /\ \A i \in 1..Len(trace'[p]) :
                  trace'[p][i] = E("startup", "invoked")
                  => /\ i > 1
                     /\ trace'[p][i - 1] = E("mark_running", "ok")
                     /\ \A j \in 1..Len(trace'[p]) :
                          trace'[p][j] = E("startup", "invoked") => j = i
             /\ pc'[p] = "call_startup" => (is_running'[p] \/ stop_requested'[p])
       /\ (start(p) /\ is_running[p])
          => /\ last_call'[p] = Call("start", "assertion", 0)
             /\ pc' = [pc EXCEPT ![p] = "exited"]
             /\ exit_code'[p] = "assertion_failure"
             /\ UNCHANGED <<trace, frame>>]_vars

\* C14 witness: start() was called on a registry that an earlier start()
\* had marked running.
C14_Witness ==
  \E p \in Procs :
    /\ is_running[p]
    /\ last_call[p] = Call("start", "assertion", 0)
    /\ Positions(p, E("startup", "returned")) # {}
    /\ ~start_args.startup_null

\* The directory part of a path: what precedes its last separator.
DirectoryOf(path) ==
  LET seps == {i \in 1..Len(path) : path[i] = "/"}
  IN IF seps = {} THEN <<>> ELSE SubSeq(path, 1, Max(seps) - 1)

\* The file name of a path without its extension.
StemOf(path) ==
  LET seps == {i \in 1..Len(path) : path[i] = "/"}
      name == IF seps = {} THEN path ELSE SubSeq(path, Max(seps) + 1, Len(path))
      dots == {i \in 2..Len(name) : name[i] = "."}
  IN IF dots = {} THEN name ELSE SubSeq(name, 1, Max(dots) - 1)

Under(directory, name) ==
  IF directory = <<>> THEN name ELSE directory \o <<"/">> \o name

\* The paths start() works with after defaulting, as C15 gives them.
DefaultedFile(p, given, extension) ==
  IF given # <<>> THEN given
  ELSE IF frame[p].detach
  THEN Under(frame[p].working_directory,
             StemOf(instance_[p].commands[1].name) \o extension)
  ELSE <<>>

C16_ErrorsShutDown ==
  [][\A p \in Procs :
       /\ (\E v \in BOOLEAN : with_shutdown_on_error(p, FALSE, v))
          => /\ UNCHANGED <<is_running, pc, exit_code>>
             /\ last_call'[p] = Call("with_shutdown_on_error", "returned", 0)
       /\ (\E v \in BOOLEAN : with_shutdown_on_error(p, TRUE, v))
          => /\ ~is_running'[p]
             /\ last_call'[p] = Call("with_shutdown_on_error", "caught", 0)
             /\ exit_code'[p] # "assertion_failure"]_vars

\* C16 as amended: when f returns, with_shutdown_on_error returns and
\* leaves is_running alone.  When f throws and the registry is initialized,
\* the error stays inside and is_running is false afterwards, whatever it
\* was; when the registry is not initialized, the handler's
\* Info::instance() fails its assertion and ends the process.
C16_ErrorsShutDownInitialized ==
  [][\A p \in Procs :
       /\ (\E v \in BOOLEAN : with_shutdown_on_error(p, FALSE, v))
          => /\ UNCHANGED <<is_running, pc, exit_code>>
             /\ last_call'[p] = Call("with_shutdown_on_error", "returned", 0)
       /\ (\E v \in BOOLEAN : with_shutdown_on_error(p, TRUE, v))
          => IF instance_[p].initialized
             THEN /\ ~is_running'[p]
                  /\ last_call'[p] = Call("with_shutdown_on_error", "caught", 0)
                  /\ exit_code'[p] # "assertion_failure"
             ELSE /\ last_call'[p] = Call("with_shutdown_on_error", "assertion", 0)
                  /\ pc'[p] = "exited"
                  /\ exit_code'[p] = "assertion_failure"
                  /\ UNCHANGED is_running]_vars

\* C16 witness: f threw inside the running startup routine and the call
\* came back with is_running cleared.
C16_Witness ==
  \E p \in Procs :
    /\ pc[p] = "startup"
    /\ last_call[p] = Call("with_shutdown_on_error", "caught", 0)
    /\ ~is_running[p]
    /\ ~stop_requested[p]

(***************************************************************************)
(* Claims about the accessors of Command and about command_id, checked     *)
(* under SpecCommand.                                                      *)
(***************************************************************************)
\* The command that was asked, the name it was asked about, what it carries.
Asked(fn) == queried.fn = fn
AskedCommand == parsed.result.commands[1]
AskedName == queried.args[1]
Carries(name) == name \in DOMAIN AskedCommand.options
Carried(name) == AskedCommand.options[name]

\* The call threw an Exception whose message names the option and ends in
\* the requirement.
ThrewRequirement(name, requirement) ==
  /\ queried.result.threw
  /\ queried.result.what = <<"option --", name, " ", requirement>>

Gave(v) == ~queried.result.threw /\ queried.result.value = v

\* C17: option(name) returns a reference that is valid exactly when the
\* command carries the option (and then holds its name and value);
\* is_valid_throw_if_value / is_valid_throw_if_no_value return the validity
\* and throw exactly when the reference is valid and a value is present,
\* respectively absent; they never throw on an invalid reference.
C17_ValencyCombinators ==
  /\ Asked("option")
     => /\ ~queried.result.threw
        /\ queried.result.value.is_valid_ = Carries(AskedName)
        /\ queried.result.value.name_ = AskedName
        /\ Carries(AskedName) => queried.result.value.value_ = Carried(AskedName)
  /\ Asked("is_valid_throw_if_value")
     => IF Carries(AskedName) /\ Carried(AskedName).has_value
        THEN queried.result.threw
        ELSE Gave(Carries(AskedName))
  /\ Asked("is_valid_throw_if_no_value")
     => IF Carries(AskedName) /\ ~Carried(AskedName).has_value
        THEN queried.result.threw
        ELSE Gave(Carries(AskedName))

\* C17 witness: is_valid_throw_if_no_value on the reference to an option
\* that a command with options does not carry returned false.
C17_Witness ==
  /\ Asked("is_valid_throw_if_no_value")
  /\ DOMAIN AskedCommand.options # {}
  /\ ~Carries(AskedName)
  /\ Gave(FALSE)

\* What C18 says of the two checked extractions, with the text `non_empty`
\* for the requirement of a non-empty value and `mandatory` (any text when
\* "") for a missing option.
ValueExtraction(non_empty, mandatory) ==
  /\ Asked("value_of_mandatory_not_null")
     => IF Carries(AskedName) /\ Carried(AskedName).has_value
        THEN Gave(Carried(AskedName).value)
        ELSE IF Carries(AskedName)
        THEN ThrewRequirement(AskedName, "requires a value")
        ELSE \/ ThrewRequirement(AskedName, mandatory)
             \/ mandatory = "" /\ ThrewRequirement(AskedName, queried.result.what[4])
  /\ Asked("value_of_mandatory_not_empty")
     => IF Carries(AskedName) /\ Carried(AskedName).has_value
           /\ Carried(AskedName).value # <<>>
        THEN Gave(Carried(AskedName).value)
        ELSE IF Carries(AskedName) /\ Carried(AskedName).has_value
        THEN ThrewRequirement(AskedName, non_empty)
        ELSE IF Carries(AskedName)
        THEN ThrewRequirement(AskedName, "requires a value")
        ELSE \/ ThrewRequirement(AskedName, mandatory)
             \/ mandatory = "" /\ ThrewRequirement(AskedName, queried.result.what[4])
  /\ (Asked("is_valid_throw_if_value") /\ queried.result.threw)
     => ThrewRequirement(AskedName, "requires no value")

\* C18 as claimed: the extractions return the value of a present option
\* with a non-null (and non-empty) value, and otherwise fail with a message
\* naming the option and the requirement: "requires a value", "requires no
\* value", "requires a non-empty value".
C18_ValueExtractionMessages == ValueExtraction("requires a non-empty value", "")

\* C18 as amended: the same, the requirement of a non-empty value reading
\* "requires a non empty value" and that of a missing option "is mandatory".
C18_ValueExtractionTexts == ValueExtraction("requires a non empty value", "is mandatory")

\* C18 witness: --a= was given and value_of_mandatory_not_empty of a failed.
C18_Witness ==
  /\ Asked("value_of_mandatory_not_empty")
  /\ AskedName = <<"a">>
  /\ Carries(AskedName)
  /\ Carried(AskedName) = Some(<<>>)
  /\ ThrewRequirement(AskedName, "requires a non empty value")

\* C19: options_strict(names...) throws "unexpected option" exactly when
\* the command carries an option that is not among the names; otherwise it
\* returns one reference per name, in order, valid with the option's value
\* where the command carries the name and invalid where it does not.
C19_OptionsStrict ==
  Asked("options_strict")
  => LET names == queried.args
         unexpected ==
           {k \in DOMAIN AskedCommand.options : \A i \in 1..Len(names) : names[i] # k}
     IN IF unexpected # {}
        THEN /\ queried.result.threw
             /\ queried.result.what[1] = "unexpected option --"
             /\ queried.result.what[2] \in unexpected
        ELSE /\ ~queried.result.threw
             /\ Len(queried.result.value) = Len(names)
             /\ \A i \in 1..Len(names) :
                  /\ queried.result.value[i].name_ = names[i]
                  /\ queried.result.value[i].is_valid_ = Carries(names[i])
                  /\ Carries(names[i])
                     => queried.result.value[i].value_ = Carried(names[i])

\* C19 witness: options_strict of a command that carries a only, asked for
\* b and a, returned an invalid reference and a valid one.
C19_Witness ==
  /\ Asked("options_strict")
  /\ queried.args = << <<"b">>, <<"a">> >>
  /\ DOMAIN AskedCommand.options = { <<"a">> }
  /\ ~queried.result.threw
  /\ ~queried.result.value[1].is_valid_
  /\ queried.result.value[2].is_valid_

\* The elements from position i (from 1) on, joined by delim.
RECURSIVE JoinedFrom(_, _, _)
JoinedFrom(elements, i, delim) ==
  IF i = Len(elements) THEN elements[i]
  ELSE elements[i] \o delim \o JoinedFrom(elements, i + 1, delim)

\* C20: command_id(commands, offset, delim) with offset < size returns the
\* names from offset on joined by delim, whatever the delimiter, and fails
\* with the invalid-offset error when offset >= size.
C20_CommandIdJoins ==
  Asked("command_id")
  => LET names == [i \in 1..Len(parsed.result.commands) |->
                     parsed.result.commands[i].name]
         offset == queried.args[1]
         delim == queried.args[2]
     IN IF offset < Len(names)
        THEN Gave(JoinedFrom(names, offset + 1, delim))
        ELSE /\ queried.result.threw
             /\ queried.result.what =
                  <<"cannot generate command ID: offset is out of range">>

(***************************************************************************)
(* Further claims about the parser, checked under SpecParse.               *)
(***************************************************************************)
\* A token in the short-option style: one leading dash, not two.
IsShortOption(t) == Len(t) >= 2 /\ t[1] = "-" /\ t[2] # "-"

\* C21: a token with a single leading dash that follows the program name is
\* never made the name of a command nor an option, in either mode: it is
\* among the parameters of a command of the result.
C21_ShortOptionsAreParameters ==
  (/\ parsed.fn # "none"
   /\ argc >= 1
   /\ ~argv_null
   /\ \A i \in 1..argc : argv[i] # <<>>)
  => /\ Result.ok
     /\ \A i \in 2..argc :
          IsShortOption(argv[i])
          => /\ \A k \in 2..Len(Result.commands) : Result.commands[k].name # argv[i]
             /\ \A k \in 1..Len(Result.commands) :
                  argv[i] \notin DOMAIN Result.commands[k].options
             /\ \E k \in 1..Len(Result.commands) :
                  \E j \in 1..Len(Result.commands[k].parameters) :
                    Result.commands[k].parameters[j] = argv[i]

\* C26: in single-command mode, a name that occurs more than once among the
\* option tokens of the command (those before the first token that is not
\* an option token) is carried once, with the value of its last occurrence.
C26_LastOccurrenceWins ==
  SingleCommandCalled
  => /\ Result.ok
     /\ LET scanned == 2..(ScanStop(argv, 1) - 1)
        IN \A i, j \in scanned :
             (i < j /\ NameOf(argv[i]) = NameOf(argv[j]))
             => LET name == NameOf(argv[i])
                    last == Max({l \in scanned : NameOf(argv[l]) = name})
                IN /\ name \in DOMAIN Result.commands[1].options
                   /\ Result.commands[1].options[name] = ValueOf(argv[last])

(***************************************************************************)
(* Further claims about detach(), start() and the signal handler, checked  *)
(* under Spec.                                                             *)
(***************************************************************************)
\* The steps of detach() in the order of its text; under start() the
\* closure run marks the registry before it calls startup.
DetachOrder ==
  <<"validate", "fork1", "umask", "redirect_clog", "setsid", "fork2",
    "dump_pid", "chdir", "close0", "close1", "close2", "startup">>

\* The steps of detach() that process p or its ancestors took, in order:
\* its record without what start() does around them, the diagnostics and
\* the end of startup.
RECURSIVE StepsOf(_)
StepsOf(events) ==
  IF events = <<>> THEN <<>>
  ELSE IF \/ Head(events)[1] \in {"create_directories", "mark_running", "diagnostic"}
          \/ Head(events)[1] = "startup" /\ Head(events)[2] # "invoked"
  THEN StepsOf(Tail(events))
  ELSE <<Head(events)>> \o StepsOf(Tail(events))

\* C22: the steps of a detach() are an initial part of the fixed order
\* validation, first fork, umask, log redirect, setsid, second fork, PID
\* write, chdir, the three closes, startup; each step but the last one
\* taken has succeeded, so the descriptors are closed only after every
\* fallible step before them succeeded and startup is invoked only after
\* the three closes succeeded.
C22_FixedOrder ==
  \A p \in Procs :
    frame[p].detach
    => LET steps == StepsOf(trace[p])
       IN /\ Len(steps) <= Len(DetachOrder)
          /\ \A i \in 1..Len(steps) : steps[i][1] = DetachOrder[i]
          /\ \A i \in 1..(Len(steps) - 1) : steps[i][2] = "ok"

\* C22 witness: startup was invoked after the eleven steps before it.
C22_Witness ==
  \E p \in Procs :
    /\ frame[p].detach
    /\ Len(StepsOf(trace[p])) = Len(DetachOrder)
    /\ pc[p] = "startup"

\* C23: handle_signal, in every state in which it runs, only clears
\* is_running on SIGINT, only ends the process on SIGTERM (or does nothing
\* where that is not supported) and changes nothing on the other signals;
\* it never fails an assertion.
C23_HandlerIsAsyncSignalSafe ==
  [][\A p \in Procs : \A sig \in Signals :
       handle_signal(p, sig)
       => /\ exit_code'[p] # "assertion_failure"
          /\ last_call' = last_call
          /\ UNCHANGED <<instance_, handler, frame, trace>>
          /\ sig = "SIGINT"
             => /\ ~is_running'[p]
                /\ UNCHANGED <<pc, exit_code>>
          /\ sig = "SIGTERM"
             => /\ UNCHANGED is_running
                /\ \/ UNCHANGED <<pc, exit_code>>
                   \/ pc'[p] = "exited" /\ exit_code'[p] = "quick_exit"
          /\ sig \notin {"SIGINT", "SIGTERM"}
             => UNCHANGED <<pc, exit_code, is_running>>]_vars

\* C24: under a detaching start(), a process is marked running only after
\* it came out of both forks as the child and the closure run marked it:
\* the processes that exited as parents, and every process of a
\* daemonization that was refused or failed before the closure ran, are
\* not running.
C24_RunningInTheDaemonOnly ==
  \A p \in Procs :
    (frame[p].via_start /\ frame[p].detach /\ is_running[p])
    => \E i \in Positions(p, E("mark_running", "ok")) :
         /\ TwiceForkedBefore(p, i)
         /\ trace[p][i - 1] = E("close2", "ok")

\* C24 witness: the original process and the intermediate one exited not
\* running and the third process is marked running.
C24_Witness ==
  \E p, q, r \in Procs :
    /\ frame[p].via_start /\ frame[q].via_start /\ frame[r].via_start
    /\ trace[p] # <<>> /\ trace[p][Len(trace[p])] = E("fork1", "parent")
    /\ trace[q] # <<>> /\ trace[q][Len(trace[q])] = E("fork2", "parent")
    /\ ~is_running[p] /\ ~is_running[q]
    /\ is_running[r] /\ pc[r] = "call_startup"

\* C25: when a foreground start() that passed its assertions on startup,
\* on the registry and on is_running comes to change the directory, the
\* working directory is not empty, whatever the first command name and
\* whether or not the caller passed a working directory.
C25_WorkingDirectoryNeverEmpty ==
  \A p \in Procs :
    (frame[p].via_start /\ ~frame[p].detach /\ pc[p] = "start_chdir")
    => frame[p].working_directory # <<>>

====
